---- MODULE Spec2Model ----
(***************************************************************************)
(* A model of the IAVL node algebra of iavl_node.go: path-copying insert   *)
(* and delete over a heap of IAVLNode objects, AVL rebalancing, lazy       *)
(* recursive hashing, ordered traversal and orphan reporting.              *)
(*                                                                         *)
(* The heap is a sequence of node records; a pointer is an index into it   *)
(* and Nil (0) is the nil pointer.  Byte strings that are keys and values  *)
(* are one-byte strings, written as the byte itself; 0 is the nil slice.   *)
(* A hash is the byte sequence fed to the digest (the digest is taken to   *)
(* be collision free), and <<>> is the nil hash.                           *)
(***************************************************************************)
EXTENDS Integers, Sequences, FiniteSets, TLC

NumKeys == 5
NumVals == 1
MaxOps == 2

Keys == 1..NumKeys
Vals == 1..NumVals
Nil == 0
NilHash == <<>>

VARIABLES
  heap,   \* the node objects after the last operation (garbage of that operation included)
  root,   \* the tree's current root pointer, Nil for the empty tree
  pre,    \* [heap, root]: the tree the last operation was applied to
  last,   \* the last operation, its arguments and everything it returned or reported
  ops     \* operations counted since the first Hash or Save, that one included

vars == <<heap, root, pre, last, ops>>

----------------------------------------------------------------------------
(* bytes.Compare on one-byte keys *)
Compare(a, b) == IF a < b THEN -1 ELSE IF a > b THEN 1 ELSE 0

maxInt8(a, b) == IF a > b THEN a ELSE b

(* The fields of an IAVLNode object. *)
IAVLNode(key, value, height, size, leftNode, rightNode) ==
  [key |-> key, value |-> value, version |-> 0, height |-> height, size |-> size,
   hash |-> NilHash, leftHash |-> NilHash, leftNode |-> leftNode,
   rightHash |-> NilHash, rightNode |-> rightNode, persisted |-> FALSE]

NewIAVLNode(key, value) == IAVLNode(key, value, 0, 1, Nil, Nil)

isLeaf(node) == node.height = 0

(***************************************************************************)
(* The machine an operation runs on: the heap, the nodes reported to the   *)
(* store through RemoveNode (in order), the nodes written in place, and    *)
(* the fatal errors raised.                                                *)
(***************************************************************************)
Machine(h) == [heap |-> h, reports |-> <<>>, mutated |-> {}, panics |-> {}]

(* A new object; its pointer is NewPtr of the machine before the allocation. *)
NewPtr(m) == Len(m.heap) + 1
Alloc(m, node) == [m EXCEPT !.heap = Append(@, node)]

(* An assignment to fields of the object n points to. *)
Store(m, n, node) == [m EXCEPT !.heap[n] = node, !.mutated = @ \cup {n}]

Panic(m, msg) == [m EXCEPT !.panics = @ \cup {msg}]

(* A local variable: F of the value val is bound to. *)
Bind(val, F(_)) == F(val)

(* The assignments  n.leftHash, n.leftNode = hash, node  and their mirror. *)
SetLeft(m, n, hash, node) ==
  Store(m, n, [m.heap[n] EXCEPT !.leftHash = hash, !.leftNode = node])

SetRight(m, n, hash, node) ==
  Store(m, n, [m.heap[n] EXCEPT !.rightHash = hash, !.rightNode = node])

(* The node store resolves the hash of every persisted node. *)
GetNode(h, hash) ==
  LET found == {n \in DOMAIN h : h[n].persisted /\ h[n].hash = hash}
  IN IF found = {} THEN Nil ELSE CHOOSE n \in found : TRUE

getLeftNode(h, n) ==
  IF h[n].leftNode # Nil THEN h[n].leftNode ELSE GetNode(h, h[n].leftHash)

getRightNode(h, n) ==
  IF h[n].rightNode # Nil THEN h[n].rightNode ELSE GetNode(h, h[n].rightHash)

removeOrphan(m, n) ==
  IF ~m.heap[n].persisted THEN m
  ELSE [m EXCEPT !.reports = Append(@, n)]

(* _copy that carries the hash of the original over *)
copyKeepHash(m, n) ==
  [m |-> Alloc(IF isLeaf(m.heap[n]) THEN Panic(m, "Why are you copying a value node?")
               ELSE m,
               [m.heap[n] EXCEPT !.persisted = FALSE]),
   node |-> NewPtr(m)]

(* _copy that carries the persisted flag of the original over *)
copyKeepPersisted(m, n) ==
  [m |-> Alloc(IF isLeaf(m.heap[n]) THEN Panic(m, "Why are you copying a value node?")
               ELSE m,
               [m.heap[n] EXCEPT !.hash = NilHash]),
   node |-> NewPtr(m)]

(* node._copy(): [m, node], node the pointer to the copy *)
copy(m, n) ==
  [m |-> Alloc(IF isLeaf(m.heap[n]) THEN Panic(m, "Why are you copying a value node?")
               ELSE m,
               [m.heap[n] EXCEPT !.hash = NilHash, !.persisted = FALSE]),
   node |-> NewPtr(m)]

(* calcHeightAndSize that leaves the size as it was *)
calcHeightOnly(m, n) ==
  Bind(m.heap[getLeftNode(m.heap, n)], LAMBDA l :
  Bind(m.heap[getRightNode(m.heap, n)], LAMBDA r :
    Store(m, n, [m.heap[n] EXCEPT !.height = maxInt8(l.height, r.height) + 1])))

calcHeightAndSize(m, n) ==
  Bind(m.heap[getLeftNode(m.heap, n)], LAMBDA l :
  Bind(m.heap[getRightNode(m.heap, n)], LAMBDA r :
    Store(m, n, [m.heap[n] EXCEPT !.height = maxInt8(l.height, r.height) + 1,
                                  !.size = l.size + r.size])))

calcBalance(h, n) == h[getLeftNode(h, n)].height - h[getRightNode(h, n)].height

(* node.rotateRight(): [m, node] *)
rotateRight(m, n) ==
  Bind(copy(m, n), LAMBDA c :
  Bind(getLeftNode(c.m.heap, c.node), LAMBDA l :
  Bind(copy(removeOrphan(c.m, l), l), LAMBDA cl :
  Bind(cl.m.heap[cl.node], LAMBDA lr :
  Bind(SetRight(cl.m, cl.node, cl.m.heap[c.node].hash, c.node), LAMBDA m1 :
  Bind(SetLeft(m1, c.node, lr.rightHash, lr.rightNode), LAMBDA m2 :
    [m |-> calcHeightAndSize(calcHeightAndSize(m2, c.node), cl.node),
     node |-> cl.node]))))))

(* rotateLeft that reports the node it is called on before it copies it *)
rotateLeftReporting(m, n) ==
  Bind(copy(removeOrphan(m, n), n), LAMBDA c :
  Bind(getRightNode(c.m.heap, c.node), LAMBDA r :
  Bind(copy(removeOrphan(c.m, r), r), LAMBDA cr :
  Bind(cr.m.heap[cr.node], LAMBDA rl :
  Bind(SetLeft(cr.m, cr.node, cr.m.heap[c.node].hash, c.node), LAMBDA m1 :
  Bind(SetRight(m1, c.node, rl.leftHash, rl.leftNode), LAMBDA m2 :
    [m |-> calcHeightAndSize(calcHeightAndSize(m2, c.node), cr.node),
     node |-> cr.node]))))))

(* node.rotateLeft(): [m, node] *)
rotateLeft(m, n) ==
  Bind(copy(m, n), LAMBDA c :
  Bind(getRightNode(c.m.heap, c.node), LAMBDA r :
  Bind(copy(removeOrphan(c.m, r), r), LAMBDA cr :
  Bind(cr.m.heap[cr.node], LAMBDA rl :
  Bind(SetLeft(cr.m, cr.node, cr.m.heap[c.node].hash, c.node), LAMBDA m1 :
  Bind(SetRight(m1, c.node, rl.leftHash, rl.leftNode), LAMBDA m2 :
    [m |-> calcHeightAndSize(calcHeightAndSize(m2, c.node), cr.node),
     node |-> cr.node]))))))

(* balance without the Left Right and Right Left cases *)
balanceSingle(m, n) ==
  Bind(calcBalance(m.heap, n), LAMBDA b :
    IF b > 1 THEN rotateRight(m, n)
    ELSE IF b < -1 THEN rotateLeft(m, n)
    ELSE [m |-> m, node |-> n])

(* balance that rotates as soon as the heights of the children differ *)
balanceAtOne(m, n) ==
  Bind(IF m.heap[n].persisted
       THEN Panic(m, "Unexpected balance() call on persisted node") ELSE m, LAMBDA m0 :
  Bind(calcBalance(m0.heap, n), LAMBDA b :
    IF b >= 1
    THEN IF calcBalance(m0.heap, getLeftNode(m0.heap, n)) >= 0
         THEN rotateRight(m0, n)
         ELSE Bind(getLeftNode(m0.heap, n), LAMBDA left :
              Bind(rotateLeft(removeOrphan(m0, left), left), LAMBDA rl :
                rotateRight(SetLeft(rl.m, n, NilHash, rl.node), n)))
    ELSE IF b <= -1
    THEN IF calcBalance(m0.heap, getRightNode(m0.heap, n)) <= 0
         THEN rotateLeft(m0, n)
         ELSE Bind(getRightNode(m0.heap, n), LAMBDA right :
              Bind(rotateRight(removeOrphan(m0, right), right), LAMBDA rr :
                rotateLeft(SetRight(rr.m, n, NilHash, rr.node), n)))
    ELSE [m |-> m0, node |-> n]))

(* node.balance(): [m, node] *)
balance(m, n) ==
  Bind(IF m.heap[n].persisted
       THEN Panic(m, "Unexpected balance() call on persisted node") ELSE m, LAMBDA m0 :
  Bind(calcBalance(m0.heap, n), LAMBDA b :
    IF b > 1
    THEN IF calcBalance(m0.heap, getLeftNode(m0.heap, n)) >= 0
         THEN rotateRight(m0, n)
         ELSE Bind(getLeftNode(m0.heap, n), LAMBDA left :
              Bind(rotateLeft(removeOrphan(m0, left), left), LAMBDA rl :
                rotateRight(SetLeft(rl.m, n, NilHash, rl.node), n)))
    ELSE IF b < -1
    THEN IF calcBalance(m0.heap, getRightNode(m0.heap, n)) <= 0
         THEN rotateLeft(m0, n)
         ELSE Bind(getRightNode(m0.heap, n), LAMBDA right :
              Bind(rotateRight(removeOrphan(m0, right), right), LAMBDA rr :
                rotateLeft(SetRight(rr.m, n, NilHash, rr.node), n)))
    ELSE [m |-> m0, node |-> n]))

(* set on a leaf that reports updated = false when it replaces the leaf *)
setLeafNoFlag(m, n, key, value) ==
  Bind(m.heap[n], LAMBDA node :
  Bind(Alloc(m, NewIAVLNode(key, value)), LAMBDA m1 :
    CASE Compare(key, node.key) = -1 ->
           [m |-> Alloc(m1, IAVLNode(node.key, Nil, 1, 2, NewPtr(m), n)),
            newSelf |-> NewPtr(m1), updated |-> FALSE, orphaned |-> <<>>]
      [] Compare(key, node.key) = 1 ->
           [m |-> Alloc(m1, IAVLNode(key, Nil, 1, 2, n, NewPtr(m))),
            newSelf |-> NewPtr(m1), updated |-> FALSE, orphaned |-> <<>>]
      [] OTHER ->
           [m |-> m1, newSelf |-> NewPtr(m), updated |-> FALSE, orphaned |-> <<n>>]))

(* node.set on a leaf: [m, newSelf, updated, orphaned] *)
setLeaf(m, n, key, value) ==
  Bind(m.heap[n], LAMBDA node :
  Bind(Alloc(m, NewIAVLNode(key, value)), LAMBDA m1 :
    CASE Compare(key, node.key) = -1 ->
           [m |-> Alloc(m1, IAVLNode(node.key, Nil, 1, 2, NewPtr(m), n)),
            newSelf |-> NewPtr(m1), updated |-> FALSE, orphaned |-> <<>>]
      [] Compare(key, node.key) = 1 ->
           [m |-> Alloc(m1, IAVLNode(key, Nil, 1, 2, n, NewPtr(m))),
            newSelf |-> NewPtr(m1), updated |-> FALSE, orphaned |-> <<>>]
      [] OTHER ->
           [m |-> m1, newSelf |-> NewPtr(m), updated |-> TRUE, orphaned |-> <<n>>]))

(* set that writes the inner nodes of the path in place instead of copying them *)
RECURSIVE setInPlace(_, _, _, _)
setInPlace(m, n, key, value) ==
  IF isLeaf(m.heap[n])
  THEN setLeaf(m, n, key, value)
  ELSE Bind([m |-> m, node |-> n], LAMBDA c :
       Bind(Compare(key, c.m.heap[c.node].key) < 0, LAMBDA goLeft :
       Bind(IF goLeft
            THEN setInPlace(c.m, getLeftNode(c.m.heap, c.node), key, value)
            ELSE setInPlace(c.m, getRightNode(c.m.heap, c.node), key, value), LAMBDA sub :
       Bind(IF goLeft
            THEN SetLeft(sub.m, c.node, NilHash, sub.newSelf)
            ELSE SetRight(sub.m, c.node, NilHash, sub.newSelf), LAMBDA m1 :
         IF sub.updated
         THEN [m |-> m1, newSelf |-> c.node, updated |-> TRUE, orphaned |-> sub.orphaned]
         ELSE Bind(balance(calcHeightAndSize(m1, c.node), c.node), LAMBDA b :
                [m |-> b.m, newSelf |-> b.node, updated |-> FALSE,
                 orphaned |-> sub.orphaned])))))

(***************************************************************************)
(* node.set(t, key, value): [m, newSelf, updated, orphaned].  On an inner  *)
(* node the list that has the node appended is overwritten by the list the *)
(* recursive call returns, so the result carries the callee's list.        *)
(***************************************************************************)
RECURSIVE set(_, _, _, _)
set(m, n, key, value) ==
  IF isLeaf(m.heap[n])
  THEN setLeaf(m, n, key, value)
  ELSE Bind(copy(m, n), LAMBDA c :
       Bind(Compare(key, c.m.heap[c.node].key) < 0, LAMBDA goLeft :
       Bind(IF goLeft
            THEN set(c.m, getLeftNode(c.m.heap, c.node), key, value)
            ELSE set(c.m, getRightNode(c.m.heap, c.node), key, value), LAMBDA sub :
       Bind(IF goLeft
            THEN SetLeft(sub.m, c.node, NilHash, sub.newSelf)
            ELSE SetRight(sub.m, c.node, NilHash, sub.newSelf), LAMBDA m1 :
         IF sub.updated
         THEN [m |-> m1, newSelf |-> c.node, updated |-> TRUE, orphaned |-> sub.orphaned]
         ELSE Bind(balance(calcHeightAndSize(m1, c.node), c.node), LAMBDA b :
                [m |-> b.m, newSelf |-> b.node, updated |-> FALSE,
                 orphaned |-> sub.orphaned])))))

(* remove on a leaf that returns no value with the removal *)
removeLeafNoValue(m, n, key) ==
  IF key = m.heap[n].key
  THEN [m |-> removeOrphan(m, n), newHash |-> NilHash, newNode |-> Nil,
        newKey |-> Nil, value |-> Nil, removed |-> TRUE]
  ELSE [m |-> m, newHash |-> m.heap[n].hash, newNode |-> n,
        newKey |-> Nil, value |-> Nil, removed |-> FALSE]

(* remove on a leaf that reports the leaf whether or not it holds the key *)
removeLeafReportMiss(m, n, key) ==
  IF key = m.heap[n].key
  THEN [m |-> removeOrphan(m, n), newHash |-> NilHash, newNode |-> Nil,
        newKey |-> Nil, value |-> m.heap[n].value, removed |-> TRUE]
  ELSE [m |-> removeOrphan(m, n), newHash |-> m.heap[n].hash, newNode |-> n,
        newKey |-> Nil, value |-> Nil, removed |-> FALSE]

(* node.remove on a leaf *)
removeLeaf(m, n, key) ==
  IF key = m.heap[n].key
  THEN [m |-> removeOrphan(m, n), newHash |-> NilHash, newNode |-> Nil,
        newKey |-> Nil, value |-> m.heap[n].value, removed |-> TRUE]
  ELSE [m |-> m, newHash |-> m.heap[n].hash, newNode |-> n,
        newKey |-> Nil, value |-> Nil, removed |-> FALSE]

(* a removal on the right that leaves the copy's key as it was *)
keepKey(m, n, newKey) == m

(* node.remove after a removal on the right: the copy takes a non-nil newKey *)
setNewKey(m, n, newKey) ==
  IF newKey # Nil THEN Store(m, n, [m.heap[n] EXCEPT !.key = newKey]) ELSE m

(* a collapse on the left that passes no newKey up *)
collapseLeftNoKey(m, n, value) ==
  [m |-> m, newHash |-> m.heap[n].rightHash, newNode |-> m.heap[n].rightNode,
   newKey |-> Nil, value |-> value, removed |-> TRUE]

(* node.remove when the left child held the key: the right child takes the *)
(* node's place and the node's key goes up as newKey                       *)
collapseLeft(m, n, value) ==
  [m |-> m, newHash |-> m.heap[n].rightHash, newNode |-> m.heap[n].rightNode,
   newKey |-> m.heap[n].key, value |-> value, removed |-> TRUE]

(* node.remove(t, key): [m, newHash, newNode, newKey, value, removed] *)
RECURSIVE remove(_, _, _)
remove(m, n, key) ==
  IF isLeaf(m.heap[n])
  THEN removeLeaf(m, n, key)
  ELSE IF Compare(key, m.heap[n].key) < 0
  THEN Bind(remove(m, getLeftNode(m.heap, n), key), LAMBDA sub :
       Bind(sub.m.heap[n], LAMBDA node :
         IF ~sub.removed
         THEN [m |-> sub.m, newHash |-> node.hash, newNode |-> n,
               newKey |-> Nil, value |-> sub.value, removed |-> FALSE]
         ELSE IF sub.newHash = NilHash /\ sub.newNode = Nil
         THEN collapseLeft(sub.m, n, sub.value)
         ELSE Bind(copy(removeOrphan(sub.m, n), n), LAMBDA c :
              Bind(SetLeft(c.m, c.node, sub.newHash, sub.newNode), LAMBDA m1 :
              Bind(balance(calcHeightAndSize(m1, c.node), c.node), LAMBDA b :
                [m |-> b.m, newHash |-> b.m.heap[b.node].hash, newNode |-> b.node,
                 newKey |-> sub.newKey, value |-> sub.value, removed |-> TRUE])))))
  ELSE Bind(remove(m, getRightNode(m.heap, n), key), LAMBDA sub :
       Bind(sub.m.heap[n], LAMBDA node :
         IF ~sub.removed
         THEN [m |-> sub.m, newHash |-> node.hash, newNode |-> n,
               newKey |-> Nil, value |-> sub.value, removed |-> FALSE]
         ELSE IF sub.newHash = NilHash /\ sub.newNode = Nil
         THEN [m |-> sub.m, newHash |-> node.leftHash, newNode |-> node.leftNode,
               newKey |-> Nil, value |-> sub.value, removed |-> TRUE]
         ELSE Bind(copy(removeOrphan(sub.m, n), n), LAMBDA c :
              Bind(SetRight(c.m, c.node, sub.newHash, sub.newNode), LAMBDA m1 :
              Bind(setNewKey(m1, c.node, sub.newKey), LAMBDA m2 :
              Bind(balance(calcHeightAndSize(m2, c.node), c.node), LAMBDA b :
                [m |-> b.m, newHash |-> b.m.heap[b.node].hash, newNode |-> b.node,
                 newKey |-> Nil, value |-> sub.value, removed |-> TRUE]))))))

----------------------------------------------------------------------------
(* wire.WriteByteSlice: the length, then the bytes *)
WriteByteSlice(bytes) == <<Len(bytes)>> \o bytes

(* ripemd160 of the hash-bytes, taken to be collision free *)
Digest(bytes) == bytes

(* node.hashWithCount(): [m, hash, count];                                 *)
(* node.writeHashBytes(w): [m, buf, hashCount]                             *)
RECURSIVE hashWithCount(_, _)
RECURSIVE writeHashBytes(_, _)
(* hashWithCount that leaves the node itself out of the count *)
hashWithCountNoSelf(m, n) ==
  IF m.heap[n].hash # NilHash
  THEN [m |-> m, hash |-> m.heap[n].hash, count |-> 0]
  ELSE Bind(writeHashBytes(m, n), LAMBDA w :
       Bind(Digest(w.buf), LAMBDA h :
         [m |-> Store(w.m, n, [w.m.heap[n] EXCEPT !.hash = h]),
          hash |-> h, count |-> w.hashCount]))

hashWithCount(m, n) ==
  IF m.heap[n].hash # NilHash
  THEN [m |-> m, hash |-> m.heap[n].hash, count |-> 0]
  ELSE Bind(writeHashBytes(m, n), LAMBDA w :
       Bind(Digest(w.buf), LAMBDA h :
         [m |-> Store(w.m, n, [w.m.heap[n] EXCEPT !.hash = h]),
          hash |-> h, count |-> w.hashCount + 1]))

(* The child on one side is hashed when it is resident: [m, hash, count] *)
hashLeft(m, n) ==
  IF m.heap[n].leftNode # Nil
  THEN Bind(hashWithCount(m, m.heap[n].leftNode), LAMBDA lh :
         [lh EXCEPT !.m = Store(lh.m, n, [lh.m.heap[n] EXCEPT !.leftHash = lh.hash])])
  ELSE [m |-> m, hash |-> m.heap[n].leftHash, count |-> 0]

hashRight(m, n) ==
  IF m.heap[n].rightNode # Nil
  THEN Bind(hashWithCount(m, m.heap[n].rightNode), LAMBDA rh :
         [rh EXCEPT !.m = Store(rh.m, n, [rh.m.heap[n] EXCEPT !.rightHash = rh.hash])])
  ELSE [m |-> m, hash |-> m.heap[n].rightHash, count |-> 0]

writeHashBytes(m, n) ==
  Bind(m.heap[n], LAMBDA node :
    IF isLeaf(node)
    THEN [m |-> m,
          buf |-> <<node.height, node.size>> \o WriteByteSlice(<<node.key>>)
                    \o WriteByteSlice(<<node.value>>) \o <<node.version>>,
          hashCount |-> 0]
    ELSE Bind(hashLeft(m, n), LAMBDA lh :
         Bind(IF lh.hash = NilHash
              THEN Panic(lh.m, "node.leftHash was nil in writeHashBytes")
              ELSE lh.m, LAMBDA m1 :
         Bind(hashRight(m1, n), LAMBDA rh :
         Bind(IF rh.hash = NilHash
              THEN Panic(rh.m, "node.rightHash was nil in writeHashBytes")
              ELSE rh.m, LAMBDA m2 :
           [m |-> m2,
            buf |-> <<node.height, node.size>> \o WriteByteSlice(lh.hash)
                      \o WriteByteSlice(rh.hash),
            hashCount |-> lh.count + rh.count])))))

----------------------------------------------------------------------------
(* node.has(t, key) *)
RECURSIVE has(_, _, _)
has(h, n, key) ==
  IF h[n].key = key THEN TRUE
  ELSE IF isLeaf(h[n]) THEN FALSE
  ELSE IF Compare(key, h[n].key) < 0
  THEN has(h, getLeftNode(h, n), key)
  ELSE has(h, getRightNode(h, n), key)

(* get that returns the index within the right subtree unchanged *)
RECURSIVE getNoOffset(_, _, _)
getNoOffset(h, n, key) ==
  IF isLeaf(h[n])
  THEN CASE Compare(h[n].key, key) = -1 -> [index |-> 1, value |-> Nil, exists |-> FALSE]
         [] Compare(h[n].key, key) = 1 -> [index |-> 0, value |-> Nil, exists |-> FALSE]
         [] OTHER -> [index |-> 0, value |-> h[n].value, exists |-> TRUE]
  ELSE IF Compare(key, h[n].key) < 0
  THEN getNoOffset(h, getLeftNode(h, n), key)
  ELSE getNoOffset(h, getRightNode(h, n), key)

(* node.get(t, key): [index, value, exists] *)
RECURSIVE get(_, _, _)
get(h, n, key) ==
  IF isLeaf(h[n])
  THEN CASE Compare(h[n].key, key) = -1 -> [index |-> 1, value |-> Nil, exists |-> FALSE]
         [] Compare(h[n].key, key) = 1 -> [index |-> 0, value |-> Nil, exists |-> FALSE]
         [] OTHER -> [index |-> 0, value |-> h[n].value, exists |-> TRUE]
  ELSE IF Compare(key, h[n].key) < 0
  THEN get(h, getLeftNode(h, n), key)
  ELSE Bind(getRightNode(h, n), LAMBDA rightNode :
         [get(h, rightNode, key) EXCEPT !.index = @ + h[n].size - h[rightNode].size])

(* node.getByIndex(t, index): [key, value, panic] *)
RECURSIVE getByIndex(_, _, _)
getByIndex(h, n, index) ==
  IF isLeaf(h[n])
  THEN IF index = 0
       THEN [key |-> h[n].key, value |-> h[n].value, panic |-> FALSE]
       ELSE [key |-> Nil, value |-> Nil, panic |-> TRUE]
  ELSE Bind(getLeftNode(h, n), LAMBDA leftNode :
         IF index < h[leftNode].size
         THEN getByIndex(h, leftNode, index)
         ELSE getByIndex(h, getRightNode(h, n), index - h[leftNode].size))

(* traverseInRange's afterStart and beforeEnd of a node's key *)
isAfterStart(start, key) == start = Nil \/ Compare(start, key) <= 0

(* beforeEnd that leaves the inclusive flag out *)
beforeEndExclusive(end, key, inclusive) == end = Nil \/ Compare(key, end) < 0

isBeforeEnd(end, key, inclusive) ==
  IF inclusive
  THEN end = Nil \/ Compare(key, end) <= 0
  ELSE end = Nil \/ Compare(key, end) < 0

(* traverseInRange that goes on to the second child after a stop in the first *)
RECURSIVE traverseOn(_, _, _, _, _, _, _, _)
traverseOn(h, n, start, end, ascending, inclusive, stopAt, visited) ==
  Bind(isAfterStart(start, h[n].key), LAMBDA afterStart :
  Bind(isBeforeEnd(end, h[n].key, inclusive), LAMBDA beforeEnd :
  Bind(IF afterStart /\ beforeEnd THEN Append(visited, n) ELSE visited, LAMBDA v1 :
    IF (afterStart /\ beforeEnd /\ n \in stopAt) \/ isLeaf(h[n])
    THEN [stop |-> afterStart /\ beforeEnd /\ n \in stopAt, visited |-> v1]
    ELSE IF ascending
    THEN Bind(IF afterStart
              THEN traverseOn(h, getLeftNode(h, n), start, end, ascending,
                                   inclusive, stopAt, v1)
              ELSE [stop |-> FALSE, visited |-> v1], LAMBDA r1 :
           IF ~beforeEnd THEN r1
           ELSE traverseOn(h, getRightNode(h, n), start, end, ascending,
                                inclusive, stopAt, r1.visited))
    ELSE Bind(IF beforeEnd
              THEN traverseOn(h, getRightNode(h, n), start, end, ascending,
                                   inclusive, stopAt, v1)
              ELSE [stop |-> FALSE, visited |-> v1], LAMBDA r1 :
           IF ~afterStart THEN r1
           ELSE traverseOn(h, getLeftNode(h, n), start, end, ascending,
                                inclusive, stopAt, r1.visited)))))

(***************************************************************************)
(* node.traverseInRange(t, start, end, ascending, inclusive, cb):          *)
(* [stop, visited].  The callback appends the node it is given to visited  *)
(* and returns stop exactly on the nodes of stopAt.  A nil start or end is *)
(* Nil.                                                                    *)
(***************************************************************************)
RECURSIVE traverseInRange(_, _, _, _, _, _, _, _)
traverseInRange(h, n, start, end, ascending, inclusive, stopAt, visited) ==
  Bind(isAfterStart(start, h[n].key), LAMBDA afterStart :
  Bind(isBeforeEnd(end, h[n].key, inclusive), LAMBDA beforeEnd :
  Bind(IF afterStart /\ beforeEnd THEN Append(visited, n) ELSE visited, LAMBDA v1 :
    IF (afterStart /\ beforeEnd /\ n \in stopAt) \/ isLeaf(h[n])
    THEN [stop |-> afterStart /\ beforeEnd /\ n \in stopAt, visited |-> v1]
    ELSE IF ascending
    THEN Bind(IF afterStart
              THEN traverseInRange(h, getLeftNode(h, n), start, end, ascending,
                                   inclusive, stopAt, v1)
              ELSE [stop |-> FALSE, visited |-> v1], LAMBDA r1 :
           IF r1.stop \/ ~beforeEnd THEN r1
           ELSE traverseInRange(h, getRightNode(h, n), start, end, ascending,
                                inclusive, stopAt, r1.visited))
    ELSE Bind(IF beforeEnd
              THEN traverseInRange(h, getRightNode(h, n), start, end, ascending,
                                   inclusive, stopAt, v1)
              ELSE [stop |-> FALSE, visited |-> v1], LAMBDA r1 :
           IF r1.stop \/ ~afterStart THEN r1
           ELSE traverseInRange(h, getLeftNode(h, n), start, end, ascending,
                                inclusive, stopAt, r1.visited)))))

(* node.traverse(t, ascending, cb) *)
traverse(h, n, ascending, stopAt) ==
  traverseInRange(h, n, Nil, Nil, ascending, FALSE, stopAt, <<>>)

----------------------------------------------------------------------------
(***************************************************************************)
(* The objects a root reaches, parents before children, left before right. *)
(* Objects nothing reaches are reclaimed between two operations, and the   *)
(* remaining ones are renumbered in this order.                            *)
(***************************************************************************)
RECURSIVE Reach(_, _)
Reach(h, n) ==
  IF n = Nil THEN <<>>
  ELSE IF isLeaf(h[n]) THEN <<n>>
  ELSE <<n>> \o Reach(h, getLeftNode(h, n)) \o Reach(h, getRightNode(h, n))

Renumber(ord, x) == IF x = Nil THEN Nil ELSE CHOOSE i \in 1..Len(ord) : ord[i] = x

Renumbered(h, ord) ==
  [i \in 1..Len(ord) |-> [h[ord[i]] EXCEPT !.leftNode = Renumber(ord, @),
                                           !.rightNode = Renumber(ord, @)]]

Compact(h, r) ==
  [heap |-> Renumbered(h, Reach(h, r)), root |-> IF r = Nil THEN Nil ELSE 1]

(* What every operation records in last. *)
Outcome(op, key, value, m) ==
  [op |-> op, key |-> key, value |-> value,
   updated |-> FALSE, orphaned |-> <<>>,
   removed |-> FALSE, newHash |-> NilHash, newNode |-> Nil, newKey |-> Nil,
   hash |-> NilHash, count |-> 0,
   reports |-> m.reports, mutated |-> m.mutated, panics |-> m.panics]

(* The tree's Set: the first key makes a leaf, later ones go through node.set. *)
TreeSet(key, value) ==
  /\ pre' = Compact(heap, root)
  /\ IF pre'.root = Nil
     THEN /\ heap' = <<NewIAVLNode(key, value)>>
          /\ root' = 1
          /\ last' = Outcome("set", key, value, Machine(<<>>))
     ELSE \E r \in {set(Machine(pre'.heap), pre'.root, key, value)} :
            /\ heap' = r.m.heap
            /\ root' = r.newSelf
            /\ last' = [Outcome("set", key, value, r.m) EXCEPT
                          !.updated = r.updated, !.orphaned = r.orphaned]

(* The tree's Remove: the new root is newNode, or the node newHash resolves to. *)
TreeRemove(key) ==
  /\ pre' = Compact(heap, root)
  /\ IF pre'.root = Nil
     THEN /\ heap' = <<>>
          /\ root' = Nil
          /\ last' = Outcome("remove", key, Nil, Machine(<<>>))
     ELSE \E r \in {remove(Machine(pre'.heap), pre'.root, key)} :
            /\ heap' = r.m.heap
            /\ root' = IF ~r.removed THEN pre'.root
                       ELSE IF r.newNode # Nil THEN r.newNode
                       ELSE GetNode(r.m.heap, r.newHash)
            /\ last' = [Outcome("remove", key, r.value, r.m) EXCEPT
                          !.removed = r.removed, !.newHash = r.newHash,
                          !.newNode = r.newNode, !.newKey = r.newKey]

(* The tree's Hash: hashWithCount of the root. *)
TreeHash ==
  /\ root # Nil
  /\ pre' = Compact(heap, root)
  /\ \E r \in {hashWithCount(Machine(pre'.heap), pre'.root)} :
       /\ heap' = r.m.heap
       /\ root' = pre'.root
       /\ last' = [Outcome("hash", Nil, Nil, r.m) EXCEPT
                     !.hash = r.hash, !.count = r.count]

(***************************************************************************)
(* The tree's Save: the root is hashed, every node not yet persisted is    *)
(* written to the store and marked persisted, and a saved inner node keeps *)
(* its children by hash only.                                              *)
(***************************************************************************)
SaveBranch(m) ==
  [m EXCEPT !.heap = [i \in DOMAIN m.heap |->
                        IF m.heap[i].persisted THEN m.heap[i]
                        ELSE [m.heap[i] EXCEPT !.persisted = TRUE,
                                              !.leftNode = Nil, !.rightNode = Nil]]]

TreeSave ==
  /\ root # Nil
  /\ pre' = Compact(heap, root)
  /\ \E r \in {hashWithCount(Machine(pre'.heap), pre'.root)} :
       /\ heap' = SaveBranch(r.m).heap
       /\ root' = pre'.root
       /\ last' = [Outcome("save", Nil, Nil, r.m) EXCEPT
                     !.hash = r.hash, !.count = r.count]

Init ==
  /\ heap = <<>>
  /\ root = Nil
  /\ pre = [heap |-> <<>>, root |-> Nil]
  /\ last = Outcome("init", Nil, Nil, Machine(<<>>))
  /\ ops = 0

(* A tree kept in memory: Set and Remove, nothing hashed or saved. *)
Set == \E key \in Keys, value \in Vals : TreeSet(key, value) /\ UNCHANGED ops

Remove == \E key \in Keys : TreeRemove(key) /\ UNCHANGED ops

Next == Set \/ Remove

Spec == Init /\ [][Next]_vars

(***************************************************************************)
(* A tree with its store: the tree is populated by any number of Set (of   *)
(* the first value) and Remove, then Hash and Save run as well; from the   *)
(* first Hash or Save on at most MaxOps operations are run, Set with every *)
(* value.                                                                  *)
(***************************************************************************)
Counted == ops' = ops + 1

StoreVals == IF ops = 0 THEN {v \in Vals : \A w \in Vals : v <= w} ELSE Vals

StoreSet ==
  /\ ops < MaxOps
  /\ \E key \in Keys, value \in StoreVals : TreeSet(key, value)
  /\ IF ops = 0 THEN UNCHANGED ops ELSE Counted

StoreRemove ==
  /\ ops < MaxOps
  /\ \E key \in Keys : TreeRemove(key)
  /\ IF ops = 0 THEN UNCHANGED ops ELSE Counted

StoreHash == ops < MaxOps /\ TreeHash /\ Counted

StoreSave == ops < MaxOps /\ TreeSave /\ Counted

NextStore == StoreSet \/ StoreRemove \/ StoreHash \/ StoreSave

SpecStore == Init /\ [][NextStore]_vars

----------------------------------------------------------------------------
(***************************************************************************)
(* What a tree denotes, read off its structure alone: the leaves from left *)
(* to right, the key -> value mapping they hold, and the height and number *)
(* of leaves of a subtree.                                                 *)
(***************************************************************************)
RECURSIVE Leaves(_, _)
Leaves(h, n) ==
  IF n = Nil THEN <<>>
  ELSE IF isLeaf(h[n]) THEN <<n>>
  ELSE Leaves(h, getLeftNode(h, n)) \o Leaves(h, getRightNode(h, n))

Range(seq) == {seq[i] : i \in DOMAIN seq}

LeafKeys(h, n) == [i \in DOMAIN Leaves(h, n) |-> h[Leaves(h, n)[i]].key]

LeafValues(h, n) == [i \in DOMAIN Leaves(h, n) |-> h[Leaves(h, n)[i]].value]

Mapping(h, n) == {<<h[l].key, h[l].value>> : l \in Range(Leaves(h, n))}

KeysOf(h, n) == {h[l].key : l \in Range(Leaves(h, n))}

Inner(h, n) == {x \in Range(Reach(h, n)) : ~isLeaf(h[x])}

RECURSIVE Depth(_, _)
Depth(h, n) ==
  IF h[n].leftNode = Nil /\ h[n].leftHash = NilHash
     /\ h[n].rightNode = Nil /\ h[n].rightHash = NilHash
  THEN 0
  ELSE 1 + maxInt8(Depth(h, getLeftNode(h, n)), Depth(h, getRightNode(h, n)))

Min(S) == CHOOSE x \in S : \A y \in S : x <= y

Abs(x) == IF x < 0 THEN -x ELSE x

(* The keys of S in ascending order. *)
Ascending(S) == SelectSeq([k \in Keys |-> k], LAMBDA k : k \in S)

Reverse(seq) == [i \in DOMAIN seq |-> seq[Len(seq) + 1 - i]]

(* The objects the last operation allocated. *)
Allocated == Len(heap) - Len(pre.heap)

----------------------------------------------------------------------------
RemoveContract ==
  last.op = "remove" =>
    /\ last.removed <=> last.key \in KeysOf(pre.heap, pre.root)
    /\ last.removed =>
         /\ <<last.key, last.value>> \in Mapping(pre.heap, pre.root)
         /\ root = IF last.newNode # Nil THEN last.newNode
                   ELSE GetNode(heap, last.newHash)
         /\ (last.newNode = Nil /\ last.newHash = NilHash) <=> root = Nil
         /\ Mapping(heap, root) =
              {p \in Mapping(pre.heap, pre.root) : p[1] # last.key}

RemoveContractWitness ==
  /\ last.op = "remove"
  /\ last.removed
  /\ last.value \in Vals
  /\ Cardinality(KeysOf(pre.heap, pre.root)) = 5
  /\ Cardinality(KeysOf(heap, root)) = 4
  /\ Allocated >= 5

(***************************************************************************)
(* C3.  At every inner node the root reaches, the heights of the two       *)
(* subtrees differ by at most one.                                         *)
(***************************************************************************)
AVLBalance ==
  \A n \in Inner(heap, root) :
    Abs(Depth(heap, getLeftNode(heap, n)) - Depth(heap, getRightNode(heap, n))) <= 1

(* a removal that left the root two levels deeper on one side, and a double rotation *)
AVLBalanceWitness ==
  /\ last.op = "remove"
  /\ last.removed
  /\ Allocated >= 5
  /\ Depth(heap, root) = 2
  /\ Depth(pre.heap, pre.root) = 3

(***************************************************************************)
(* C4.  Every inner node's key is the smallest leaf key of its right       *)
(* subtree and is greater than every leaf key of its left subtree; the     *)
(* leaves from left to right are in strictly ascending key order.          *)
(***************************************************************************)
SeparatorOrder ==
  /\ \A n \in Inner(heap, root) :
       /\ heap[n].key = Min(KeysOf(heap, getRightNode(heap, n)))
       /\ \A k \in KeysOf(heap, getLeftNode(heap, n)) : k < heap[n].key
  /\ \A i, j \in DOMAIN LeafKeys(heap, root) :
       i < j => LeafKeys(heap, root)[i] < LeafKeys(heap, root)[j]

(* the leftmost leaf of a right subtree that is not a single leaf was removed *)
SeparatorOrderWitness ==
  /\ last.op = "remove"
  /\ last.removed
  /\ \E n \in Inner(pre.heap, pre.root) :
       /\ pre.heap[n].key = last.key
       /\ ~isLeaf(pre.heap[getRightNode(pre.heap, n)])
  /\ \E n \in Inner(heap, root) : heap[n].key > last.key

(***************************************************************************)
(* C5.  Every node the root reaches stores the height and size of the      *)
(* recursive definitions: 0 and 1 at a leaf, 1 + the larger child height   *)
(* and the sum of the child sizes at an inner node; the root's size is the *)
(* number of keys in the mapping.                                          *)
(***************************************************************************)
HeightAndSize ==
  /\ \A n \in Range(Reach(heap, root)) :
       /\ heap[n].height = Depth(heap, n)
       /\ heap[n].size = Len(Leaves(heap, n))
       /\ isLeaf(heap[n]) => heap[n].size = 1
       /\ ~isLeaf(heap[n]) =>
            /\ heap[n].height = 1 + maxInt8(heap[getLeftNode(heap, n)].height,
                                            heap[getRightNode(heap, n)].height)
            /\ heap[n].size = heap[getLeftNode(heap, n)].size
                                + heap[getRightNode(heap, n)].size
  /\ root # Nil => heap[root].size = Cardinality(KeysOf(heap, root))

(* set returned early, below a root of height 3, without recomputing *)
HeightAndSizeWitness ==
  /\ last.op = "set"
  /\ last.updated
  /\ heap[root].height = 3
  /\ heap[root].size = 5
  /\ Allocated = 4

(***************************************************************************)
(* C6.  The hash-bytes of a tree computed from its structure alone: the    *)
(* leaves' key, value and version, and at an inner node the height, the    *)
(* number of leaves and the two children's hashes.  No cached hash, stored *)
(* height or size, inner key or persisted flag enters it.                  *)
(***************************************************************************)
RECURSIVE TreeBytes(_, _)
TreeBytes(h, n) ==
  IF Depth(h, n) = 0
  THEN <<0, 1>> \o WriteByteSlice(<<h[n].key>>) \o WriteByteSlice(<<h[n].value>>)
         \o <<h[n].version>>
  ELSE <<Depth(h, n), Len(Leaves(h, n))>>
         \o WriteByteSlice(Digest(TreeBytes(h, getLeftNode(h, n))))
         \o WriteByteSlice(Digest(TreeBytes(h, getRightNode(h, n))))

(* the root hash hashWithCount returns on the current tree *)
RootHash == hashWithCount(Machine(heap), root).hash

(* the tree that setting the given entries one after the other builds *)
RECURSIVE SetAll(_, _, _)
SetAll(m, r, entries) ==
  IF entries = <<>> THEN [m |-> m, root |-> r]
  ELSE IF r = Nil
  THEN SetAll(Alloc(m, NewIAVLNode(Head(entries)[1], Head(entries)[2])), NewPtr(m),
              Tail(entries))
  ELSE Bind(set(m, r, Head(entries)[1], Head(entries)[2]), LAMBDA res :
         SetAll(res.m, res.newSelf, Tail(entries)))

(* the current mapping set in ascending key order on an empty tree *)
AscendingTree ==
  SetAll(Machine(<<>>), Nil,
         [i \in 1..Len(LeafKeys(heap, root)) |->
            <<Ascending(KeysOf(heap, root))[i],
              (CHOOSE p \in Mapping(heap, root) :
                 p[1] = Ascending(KeysOf(heap, root))[i])[2]>>])

PathCopy ==
  last.op \in {"set", "remove"} =>
    /\ \A n \in DOMAIN pre.heap : heap[n] = pre.heap[n]
    /\ LeafKeys(heap, pre.root) = LeafKeys(pre.heap, pre.root)
    /\ LeafValues(heap, pre.root) = LeafValues(pre.heap, pre.root)
    /\ \A n \in last.mutated : n \notin DOMAIN pre.heap /\ ~heap[n].persisted

(* a removal from a saved tree that rotated: copies written, originals reported *)
PathCopyWitness ==
  /\ last.op = "remove"
  /\ last.removed
  /\ \A n \in DOMAIN pre.heap : pre.heap[n].persisted
  /\ Cardinality(last.mutated) >= 5
  /\ Len(last.reports) >= 3
  /\ Mapping(heap, root) # Mapping(heap, pre.root)

(***************************************************************************)
(* C8.  get returns the number of leaf keys below the key, with the value  *)
(* and the exists flag of the mapping; getByIndex returns the i-th         *)
(* smallest key and its value.                                             *)
(***************************************************************************)
RankSelect ==
  root # Nil =>
    /\ \A k \in Keys :
         get(heap, root, k) =
           [index |-> Cardinality({j \in KeysOf(heap, root) : j < k}),
            value |-> IF k \in KeysOf(heap, root)
                      THEN (CHOOSE p \in Mapping(heap, root) : p[1] = k)[2] ELSE Nil,
            exists |-> k \in KeysOf(heap, root)]
    /\ \A i \in 1..Len(Leaves(heap, root)) :
         /\ getByIndex(heap, root, i - 1) =
              [key |-> Ascending(KeysOf(heap, root))[i],
               value |-> (CHOOSE p \in Mapping(heap, root) :
                            p[1] = Ascending(KeysOf(heap, root))[i])[2],
               panic |-> FALSE]
         /\ get(heap, root, getByIndex(heap, root, i - 1).key).index = i - 1

(* key 4 at rank 2 of four keys, and the insertion point of the absent key 3 *)
RankSelectWitness ==
  /\ root # Nil
  /\ KeysOf(heap, root) = {1, 2, 4, 5}
  /\ get(heap, root, 4) = [index |-> 2, value |-> 1, exists |-> TRUE]
  /\ get(heap, root, 3) = [index |-> 2, value |-> Nil, exists |-> FALSE]
  /\ getByIndex(heap, root, 2) = [key |-> 4, value |-> 1, panic |-> FALSE]

(***************************************************************************)
(* C9.  With a callback that never stops, traverseInRange passes to it the *)
(* leaves whose key is in the range, each once, in ascending key order     *)
(* when ascending and in descending key order otherwise.  The start is nil *)
(* or the key of the last operation: every tree follows an operation on    *)
(* each key (an update of a key it holds, a removal of one it does not),   *)
(* so the states cover every start for every tree.                         *)
(***************************************************************************)
InRange(k, start, end, inclusive) ==
  /\ start = Nil \/ start <= k
  /\ end = Nil \/ IF inclusive THEN k <= end ELSE k < end

KeysAt(h, nodes) == [i \in DOMAIN nodes |-> h[nodes[i]].key]

VisitedLeafKeys(h, n, start, end, ascending, inclusive) ==
  KeysAt(h, SelectSeq(traverseInRange(h, n, start, end, ascending, inclusive,
                                      {}, <<>>).visited,
                      LAMBDA x : isLeaf(h[x])))

TraverseRange ==
  root # Nil =>
    LET keys == Ascending(KeysOf(heap, root))
    IN  /\ ~traverse(heap, root, TRUE, {}).stop
        /\ \A start \in {Nil, last.key}, end \in 0..NumKeys, inclusive \in BOOLEAN :
             LET inRange == SelectSeq(keys, LAMBDA k : InRange(k, start, end, inclusive))
             IN  /\ VisitedLeafKeys(heap, root, start, end, TRUE, inclusive) = inRange
                 /\ VisitedLeafKeys(heap, root, start, end, FALSE, inclusive)
                      = Reverse(inRange)

(* five leaves: a descending inclusive range and an ascending half-open one from the key just set *)
TraverseRangeWitness ==
  /\ root # Nil
  /\ KeysOf(heap, root) = Keys
  /\ last.op = "set"
  /\ last.key = 2
  /\ VisitedLeafKeys(heap, root, last.key, 4, FALSE, TRUE) = <<4, 3, 2>>
  /\ VisitedLeafKeys(heap, root, last.key, 4, TRUE, FALSE) = <<2, 3>>
  /\ VisitedLeafKeys(heap, root, Nil, Nil, TRUE, FALSE) = <<1, 2, 3, 4, 5>>
  /\ Len(traverse(heap, root, TRUE, {}).visited) = 9

(***************************************************************************)
(* C10.  set on a fully persisted tree returns as orphans the persisted    *)
(* nodes of the old search path that the new root does not reach: every    *)
(* inner node of the path, and the leaf when the key existed.              *)
(***************************************************************************)
RECURSIVE SearchPath(_, _, _)
SearchPath(h, n, key) ==
  IF isLeaf(h[n]) THEN <<n>>
  ELSE IF Compare(key, h[n].key) < 0
  THEN <<n>> \o SearchPath(h, getLeftNode(h, n), key)
  ELSE <<n>> \o SearchPath(h, getRightNode(h, n), key)

FullyPersisted(h, r) == r # Nil /\ \A n \in Range(Reach(h, r)) : h[n].persisted

SetOrphans ==
  (last.op = "set" /\ FullyPersisted(pre.heap, pre.root)) =>
    /\ Range(last.orphaned) =
         {n \in Range(SearchPath(pre.heap, pre.root, last.key)) :
            pre.heap[n].persisted /\ n \notin Range(Reach(heap, root))}
    /\ Len(last.orphaned) = Cardinality(Range(last.orphaned))

(***************************************************************************)
(* C11.  remove of a present key on a fully persisted tree reports through *)
(* RemoveNode exactly the persisted nodes of the old tree that the new     *)
(* root does not reach: every such node of the search path is reported,    *)
(* the inner node dropped on a collapse included, and nothing else is.     *)
(***************************************************************************)
Unreached == {n \in DOMAIN pre.heap : n \notin Range(Reach(heap, root))}

RemoveOrphans ==
  (last.op = "remove" /\ last.removed /\ FullyPersisted(pre.heap, pre.root)) =>
    /\ \A n \in Range(SearchPath(pre.heap, pre.root, last.key)) :
         n \in Unreached => n \in Range(last.reports)
    /\ Range(last.reports) \subseteq Unreached

(***************************************************************************)
(* C12.  hashWithCount on the root of any tree returns as count the number *)
(* of nodes whose hash was unset and is set by the call, which are the     *)
(* reachable nodes that lacked a hash; afterwards every reachable node has *)
(* its hash and every inner node the hashes of its children; a second call *)
(* and a call on a root that has its hash return that hash with count 0    *)
(* and write nothing.  The calls Hash and Save make count the same way.    *)
(***************************************************************************)
Unhashed(h, r) == {n \in Range(Reach(h, r)) : h[n].hash = NilHash}

HashCount ==
  /\ root # Nil =>
       LET r == hashWithCount(Machine(heap), root)
       IN  /\ r.count = Cardinality(Unhashed(heap, root))
           /\ {n \in DOMAIN heap : r.m.heap[n].hash # heap[n].hash} = Unhashed(heap, root)
           /\ Unhashed(r.m.heap, root) = {}
           /\ \A n \in Inner(heap, root) :
                /\ r.m.heap[n].leftHash = r.m.heap[getLeftNode(heap, n)].hash
                /\ r.m.heap[n].rightHash = r.m.heap[getRightNode(heap, n)].hash
           /\ r.hash = r.m.heap[root].hash
           /\ r.m.panics = {}
           /\ hashWithCount(Machine(r.m.heap), root)
                = [m |-> Machine(r.m.heap), hash |-> r.hash, count |-> 0]
           /\ heap[root].hash # NilHash =>
                r = [m |-> Machine(heap), hash |-> heap[root].hash, count |-> 0]
  /\ last.op \in {"hash", "save"} =>
       /\ last.count = Cardinality(Unhashed(pre.heap, pre.root))
       /\ last.hash = heap[root].hash
       /\ last.mutated \subseteq DOMAIN pre.heap

(* a tree saved and then grown: hashing it counts the new nodes only *)
HashCountWitness ==
  /\ root # Nil
  /\ last.op = "set"
  /\ hashWithCount(Machine(heap), root).count = 4
  /\ Cardinality(Range(Reach(heap, root))) = 9
  /\ \E n \in Range(Reach(heap, root)) : heap[n].persisted /\ ~isLeaf(heap[n])

(***************************************************************************)
(* C13.  Scenario S3 with "a", "b", "c" as the keys 1, 2, 3: the state     *)
(* after set of "a" on the tree that set of "c" and then of "b" built.     *)
(***************************************************************************)
S3Tree == SetAll(Machine(<<>>), Nil, <<<<3, 1>>, <<2, 1>>, <<1, 1>>>>)

S3 ==
  /\ last.op = "set"
  /\ last.key = 1
  /\ last.value = 1
  /\ pre = Compact(SetAll(Machine(<<>>), Nil, <<<<3, 1>>, <<2, 1>>>>).m.heap,
                   SetAll(Machine(<<>>), Nil, <<<<3, 1>>, <<2, 1>>>>).root)

(***************************************************************************)
(* C13 as stated: after the third set the root is the result of a single   *)
(* right rotation, an inner node with separator "b" and height 1 over the  *)
(* leaf "a" on the left and the leaf "c" on the right.                     *)
(***************************************************************************)
S3SingleRotation ==
  S3 =>
    /\ heap[root].key = 2
    /\ heap[root].height = 1
    /\ isLeaf(heap[getLeftNode(heap, root)])
    /\ heap[getLeftNode(heap, root)].key = 1
    /\ isLeaf(heap[getRightNode(heap, root)])
    /\ heap[getRightNode(heap, root)].key = 3

(***************************************************************************)
(* C13 amended.  After the third set no rotation has run: the root is a    *)
(* copy of the old root with separator "c", height 2 and size 3, its left  *)
(* child the new inner node with separator "b" over the leaves "a" and     *)
(* "b", its right child the leaf "c".                                      *)
(***************************************************************************)
S3NoRotation ==
  S3 =>
    /\ Compact(heap, root) = Compact(S3Tree.m.heap, S3Tree.root)
    /\ heap[root].key = 3
    /\ heap[root].height = 2
    /\ heap[root].size = 3
    /\ calcBalance(heap, root) = 1
    /\ heap[getLeftNode(heap, root)].key = 2
    /\ heap[getLeftNode(heap, root)].height = 1
    /\ LeafKeys(heap, getLeftNode(heap, root)) = <<1, 2>>
    /\ isLeaf(heap[getRightNode(heap, root)])
    /\ heap[getRightNode(heap, root)].key = 3
    /\ getRightNode(heap, root) = getRightNode(pre.heap, pre.root)
    /\ Allocated = 3

(* the third set of the scenario has run and left three leaves *)
S3NoRotationWitness ==
  /\ S3
  /\ LeafKeys(heap, root) = <<1, 2, 3>>
  /\ heap[root].height = 2

(***************************************************************************)
(* C14.  remove of a key that is not in the tree returns removed = false,  *)
(* the input node as newNode, its hash as newHash, a nil value and a nil   *)
(* newKey; it allocates nothing, writes no field and reports no orphan.    *)
(***************************************************************************)
RemoveAbsent ==
  (last.op = "remove" /\ pre.root # Nil /\ last.key \notin KeysOf(pre.heap, pre.root)) =>
    /\ ~last.removed
    /\ last.newNode = pre.root
    /\ last.newHash = pre.heap[pre.root].hash
    /\ last.value = Nil
    /\ last.newKey = Nil
    /\ heap = pre.heap
    /\ root = pre.root
    /\ last.mutated = {}
    /\ last.reports = <<>>
    /\ last.panics = {}

(* a missed removal below the root of a saved tree, whose hash comes back *)
RemoveAbsentWitness ==
  /\ last.op = "remove"
  /\ ~last.removed
  /\ last.key \notin KeysOf(pre.heap, pre.root)
  /\ Cardinality(KeysOf(pre.heap, pre.root)) >= 3
  /\ \E k \in KeysOf(pre.heap, pre.root) : k < last.key
  /\ \E k \in KeysOf(pre.heap, pre.root) : k > last.key
  /\ pre.heap[pre.root].persisted
  /\ last.newHash # NilHash
  /\ last.newHash = heap[root].hash

(***************************************************************************)
(* C15.  remove of a present key at any inner node n of the tree: the      *)
(* returned newKey is non-nil exactly when the leftmost leaf key of the    *)
(* subtree changed, and is then the new leftmost leaf key; a removal that  *)
(* goes right at n returns a nil newKey and the returned node's key is the *)
(* leftmost leaf key of its right subtree.  The key is the one the last    *)
(* Remove was called with, the nodes are those of the tree it was called   *)
(* on.                                                                     *)
(***************************************************************************)
Leftmost(h, n) == LeafKeys(h, n)[1]

Returned(r) == IF r.newNode # Nil THEN r.newNode ELSE GetNode(r.m.heap, r.newHash)

NewKeyRule ==
  (last.op = "remove" /\ last.removed) =>
    /\ last.newKey = remove(Machine(pre.heap), pre.root, last.key).newKey
    /\ \A n \in Inner(pre.heap, pre.root) :
         last.key \in KeysOf(pre.heap, n) =>
           LET r == remove(Machine(pre.heap), n, last.key)
           IN  /\ r.removed
               /\ Returned(r) # Nil
               /\ r.newKey # Nil <=> Leftmost(r.m.heap, Returned(r)) # Leftmost(pre.heap, n)
               /\ r.newKey # Nil => r.newKey = Leftmost(r.m.heap, Returned(r))
               /\ Compare(last.key, pre.heap[n].key) >= 0 =>
                    /\ r.newKey = Nil
                    /\ ~isLeaf(r.m.heap[Returned(r)]) =>
                         r.m.heap[Returned(r)].key =
                           Leftmost(r.m.heap, getRightNode(r.m.heap, Returned(r)))

(* the leftmost key of the root's right subtree left a tree of height 3:   *)
(* the right child returns the new leftmost key, the root consumes it      *)
NewKeyRuleWitness ==
  /\ last.op = "remove"
  /\ last.removed
  /\ pre.heap[pre.root].height = 3
  /\ last.key = pre.heap[pre.root].key
  /\ ~isLeaf(pre.heap[getRightNode(pre.heap, pre.root)])
  /\ remove(Machine(pre.heap), getRightNode(pre.heap, pre.root), last.key).newKey
       = Leftmost(heap, getRightNode(heap, root))
  /\ remove(Machine(pre.heap), getRightNode(pre.heap, pre.root), last.key).newKey # Nil
  /\ last.newKey = Nil
  /\ heap[root].key # last.key
  /\ heap[root].key = Leftmost(heap, getRightNode(heap, root))

(***************************************************************************)
(* C16.  With a callback that stops at the nodes of a given key (at its    *)
(* leaf only, or at its leaf and the inner node that has it as separator), *)
(* traverseInRange calls the callback on the nodes a traversal that never  *)
(* stops visits, up to and including the first node the callback stops at, *)
(* and returns true; when the callback stops at none of them it visits     *)
(* every node in range, each once, and returns false.  The key is the one  *)
(* of the last operation.                                                  *)
(***************************************************************************)
StopRule ==
  root # Nil =>
    \A end \in 0..NumKeys, ascending, leafOnly \in BOOLEAN :
      LET stopAt == {n \in Range(Reach(heap, root)) :
                       heap[n].key = last.key /\ (leafOnly => isLeaf(heap[n]))}
          full == traverseInRange(heap, root, Nil, end, ascending, FALSE, {}, <<>>)
          cut == traverseInRange(heap, root, Nil, end, ascending, FALSE, stopAt, <<>>)
          hits == {i \in DOMAIN full.visited : full.visited[i] \in stopAt}
      IN  /\ ~full.stop
          /\ Range(full.visited) = {n \in Range(Reach(heap, root)) :
                                      InRange(heap[n].key, Nil, end, FALSE)}
          /\ Len(full.visited) = Cardinality(Range(full.visited))
          /\ hits = {} => cut = full
          /\ hits # {} => /\ cut.stop
                          /\ cut.visited = SubSeq(full.visited, 1, Min(hits))

(* a stop at a leaf in the first subtree visited, on the way down and on the way up *)
StopRuleWitness ==
  /\ root # Nil
  /\ heap[root].height = 3
  /\ last.key = 2
  /\ KeysOf(heap, root) = Keys
  /\ \E s \in Range(Leaves(heap, root)) :
       /\ heap[s].key = 2
       /\ traverseInRange(heap, root, Nil, Nil, TRUE, FALSE, {s}, <<>>).stop
       /\ Len(traverseInRange(heap, root, Nil, Nil, TRUE, FALSE, {s}, <<>>).visited) < 9
       /\ traverseInRange(heap, root, Nil, Nil, FALSE, FALSE, {s}, <<>>).stop
       /\ Len(traverseInRange(heap, root, Nil, Nil, FALSE, FALSE, {s}, <<>>).visited) < 9
       /\ ~traverseInRange(heap, root, Nil, 2, TRUE, FALSE, {s}, <<>>).stop

(***************************************************************************)
(* C17.  set and remove on a tree with no persisted node: the orphan list  *)
(* set returns is empty and nothing is reported through RemoveNode, also   *)
(* when set replaces the value of a key the tree holds.                    *)
(***************************************************************************)
UnpersistedNoOrphan ==
  (/\ last.op \in {"set", "remove"}
   /\ pre.root # Nil
   /\ \A n \in DOMAIN pre.heap : ~pre.heap[n].persisted) =>
    /\ last.orphaned = <<>>
    /\ last.reports = <<>>

(***************************************************************************)
(* C18.  One set or remove on a fully persisted tree: no node occurs twice *)
(* among the RemoveNode reports and the orphan list set returns, and none  *)
(* of them is reachable from the new root.                                 *)
(***************************************************************************)
Orphans == last.reports \o last.orphaned

OrphansOnce ==
  (last.op \in {"set", "remove"} /\ FullyPersisted(pre.heap, pre.root)) =>
    /\ Len(Orphans) = Cardinality(Range(Orphans))
    /\ Range(Orphans) \cap Range(Reach(heap, root)) = {}
    /\ \A n \in Range(Orphans) : n \in DOMAIN pre.heap /\ pre.heap[n].persisted

(* a removal from a saved tree that ran a double rotation: the leaf, the   *)
(* root, its child and its grandchild are reported                         *)
OrphansOnceWitness ==
  /\ last.op = "remove"
  /\ last.removed
  /\ FullyPersisted(pre.heap, pre.root)
  /\ Len(last.reports) = 4
  /\ Cardinality({n \in Range(last.reports) : ~isLeaf(pre.heap[n])}) = 3

(***************************************************************************)
(* C19.  No operation panics: balance is never called on a persisted node, *)
(* _copy is never called on a leaf, and writeHashBytes never finds a nil   *)
(* child hash, over Set, Remove, Hash and Save on trees built from the     *)
(* empty tree.                                                             *)
(***************************************************************************)
NoPanic ==
  /\ "Unexpected balance() call on persisted node" \notin last.panics
  /\ "Why are you copying a value node?" \notin last.panics
  /\ last.panics = {}

(* a set on a saved tree that rotated at the root *)
NoPanicWitness ==
  /\ last.op = "set"
  /\ ~last.updated
  /\ FullyPersisted(pre.heap, pre.root)
  /\ heap[root].key # pre.heap[pre.root].key
  /\ ~heap[root].persisted
  /\ Allocated >= 6
  /\ last.panics = {}

(***************************************************************************)
(* C20.  has agrees with get on every key: has is true exactly for the     *)
(* keys get reports as existing, which are the keys of the leaves; no      *)
(* inner node has a key that is not the key of a leaf.                     *)
(***************************************************************************)
HasAgrees ==
  root # Nil =>
    /\ \A k \in Keys :
         /\ has(heap, root, k) = get(heap, root, k).exists
         /\ has(heap, root, k) = (k \in KeysOf(heap, root))
    /\ \A n \in Inner(heap, root) : heap[n].key \in KeysOf(heap, root)

(* the key just removed was the separator of the root: has no longer finds it *)
HasAgreesWitness ==
  /\ last.op = "remove"
  /\ last.removed
  /\ root # Nil
  /\ pre.heap[pre.root].height = 3
  /\ last.key = pre.heap[pre.root].key
  /\ has(pre.heap, pre.root, last.key)
  /\ ~has(heap, root, last.key)
  /\ ~get(heap, root, last.key).exists

====
